---- MODULE Spec2Model ----
(***************************************************************************)
(* Model of the phase-space reconstruction forward model                   *)
(* (src/gpsr/modeling.py: GPSR, GPSRQuadScanLattice, GPSR6DLattice) and of *)
(* the differentiable KDE histogram estimator (src/paper/histogram.py).    *)
(*                                                                         *)
(* Real numbers are fixed-point integers with SCALE units per 1.0.         *)
(* A tensor is a record [shape, at]: `shape` is the sequence of its axis   *)
(* sizes and `at` maps every index tuple (1-based) to the entry.           *)
(***************************************************************************)
EXTENDS Integers, Sequences, FiniteSets, TLC

VARIABLES
    lats,       \* heap of lattice objects:   reference -> lattice object
    gens,       \* heap of generator objects: reference -> generator object
    self,       \* the GPSR module's fields: references it holds (or NoRef)
    pc,         \* position of the (single-threaded) caller inside GPSR
    x,          \* argument of the forward call in progress / last made
    initial_beam, \* local variable of GPSR.forward
    result,     \* what the last forward call returned (or raised)
    trace,      \* the steps the current / last forward call has executed
    written,    \* scan tensors written into self.lattice and not yet tracked
    tracked,    \* what the last track_and_observe consumed
    built,      \* the lattice object as GPSR.__init__ copied it
    earlier,    \* an earlier forward call was made with another scan tensor
    hcall       \* the last call into the histogram estimator

vars == <<lats, gens, self, pc, x, initial_beam, result, trace, written, tracked,
          built, earlier, hcall>>

----------------------------------------------------------------------------
(* Bounds of the model.                                                    *)

\* largest number of dipole states (first batch axis of a scan tensor)
MaxM == 2
\* largest number of TDC states (second batch axis)
MaxN == 2
\* largest number of quadrupole strengths (third batch axis)
MaxK == 2

----------------------------------------------------------------------------
(* Fixed-point arithmetic.                                                 *)

SCALE == 10 ^ 3

Abs(a) == IF a < 0 THEN -a ELSE a
Sgn(a) == IF a < 0 THEN -1 ELSE 1

\* a * b of two fixed-point numbers
FMul(a, b) == Sgn(a) * Sgn(b) * ((Abs(a) * Abs(b)) \div SCALE)
\* a / b of two fixed-point numbers, b # 0
FDiv(a, b) == Sgn(a) * Sgn(b) * ((Abs(a) * SCALE) \div Abs(b))

\* torch.arcsin / np.sin / np.cos / torch.cos by their power series, which
\* is accurate to the fixed-point resolution on the modelled range |a| <= 0.6
ArcSin(a) ==
    LET a2 == FMul(a, a)
        a3 == FMul(a2, a)
        a5 == FMul(a3, a2)
        a7 == FMul(a5, a2)
    IN  a + (a3 \div 6) + ((3 * a5) \div 40) + ((15 * a7) \div 336)

Sin(a) ==
    LET a2 == FMul(a, a)
        a3 == FMul(a2, a)
        a5 == FMul(a3, a2)
    IN  a - (a3 \div 6) + (a5 \div 120)

Cos(a) ==
    LET a2 == FMul(a, a)
        a4 == FMul(a2, a2)
        a6 == FMul(a4, a2)
    IN  SCALE - (a2 \div 2) + (a4 \div 24) - (a6 \div 720)

----------------------------------------------------------------------------
(* Tensors.                                                                *)

MaxOf(S) == IF S = {} THEN 0 ELSE CHOOSE m \in S : \A s \in S : s <= m

\* every index tuple of a tensor of the given shape
Indices(shape) ==
    {i \in [1..Len(shape) -> 1..MaxOf({shape[k] : k \in 1..Len(shape)})] :
        \A k \in 1..Len(shape) : i[k] <= shape[k]}

\* torch.tensor(v): a rank-0 tensor
Scalar(v) == [shape |-> <<>>, at |-> [i \in {<<>>} |-> v]]

\* t[..., c] with the Python (0-based) index c on the last axis
Ellipsis(t, c) ==
    LET front == SubSeq(t.shape, 1, Len(t.shape) - 1)
    IN  [shape |-> front, at |-> [i \in Indices(front) |-> t.at[Append(i, c + 1)]]]

\* x[i] with the Python (0-based) index i on the first axis
First(t, i) ==
    LET rest == Tail(t.shape)
    IN  [shape |-> rest, at |-> [j \in Indices(rest) |-> t.at[<<i + 1>> \o j]]]

\* the shape two tensors broadcast to (right-aligned, a missing axis counts 1)
BroadcastShape(a, b) ==
    LET n == IF Len(a) > Len(b) THEN Len(a) ELSE Len(b)
        dim(s, k) == IF k > n - Len(s) THEN s[k - (n - Len(s))] ELSE 1
    IN  [k \in 1..n |-> IF dim(a, k) > dim(b, k) THEN dim(a, k) ELSE dim(b, k)]

RECURSIVE BroadcastAll(_)
BroadcastAll(shapes) ==
    IF shapes = {} THEN <<>>
    ELSE LET s == CHOOSE s \in shapes : TRUE
         IN  BroadcastShape(s, BroadcastAll(shapes \ {s}))

----------------------------------------------------------------------------
(* The lattices.  A lattice object is a record; `elements` holds every     *)
(* parameter tensor of its Segment under the name ELEMENT_parameter.       *)

\* GPSRQuadScanLattice.__init__(l_quad, l_drift, diagnostic)
GPSRQuadScanLattice(a) ==
    [variant |-> "quad",
     diagnostic |-> a.diagnostic,
     elements |-> [Q1_length |-> Scalar(a.l_quad),
                   Q1_k1     |-> Scalar(0),
                   D1_length |-> Scalar(a.l_drift)]]

\* GPSR6DLattice.__init__(l_quad, l_tdc, f_tdc, phi_tdc, l_bend, theta_on,
\*                        l1, l2, l3, screen_1, screen_2)
GPSR6DLattice(a) ==
    LET l_d1  == a.l1 - (a.l_quad \div 2) - (a.l_tdc \div 2)
        l_d2  == a.l2 - (a.l_tdc \div 2) - (a.l_bend \div 2)
        l_d3  == a.l3 - FDiv(a.l_bend \div 2, Cos(a.theta_on))
        l_arc == FDiv(FMul(a.l_bend, a.theta_on), Sin(a.theta_on))
    IN  [variant |-> "sixd",
         l_bend |-> a.l_bend,
         l3 |-> a.l3,
         screen_1_diagonstic |-> a.screen_1,
         screen_2_diagonstic |-> a.screen_2,
         elements |-> [SCAN_QUAD_length        |-> Scalar(a.l_quad),
                       SCAN_QUAD_k1            |-> Scalar(0),
                       D1_length               |-> Scalar(l_d1),
                       SCAN_TDC_length         |-> Scalar(a.l_tdc),
                       SCAN_TDC_voltage        |-> Scalar(0),
                       D2_length               |-> Scalar(l_d2),
                       SCAN_DIPOLE_length      |-> Scalar(l_arc),
                       SCAN_DIPOLE_angle       |-> Scalar(0),
                       SCAN_DIPOLE_e1          |-> Scalar(0),
                       SCAN_DIPOLE_e2          |-> Scalar(a.theta_on),
                       DIPOLE_TO_SCREEN_length |-> Scalar(l_d3)]]

\* GPSRQuadScanLattice.set_lattice_parameters(x)
SetLatticeParametersQuad(lat, xx) ==
    [lat EXCEPT !.elements.Q1_k1 = xx]

\* the drift computed from the full dipole length
DipoleToScreenLengthFull(lat, bend_angle) ==
    [shape |-> bend_angle.shape,
     at    |-> [i \in DOMAIN bend_angle.at |->
                    lat.l3 - FDiv(lat.l_bend, Cos(bend_angle.at[i]))]]

\* self.l3 - self.l_bend / 2 / torch.cos(bend_angle), elementwise
DipoleToScreenLength(lat, bend_angle) ==
    [shape |-> bend_angle.shape,
     at    |-> [i \in DOMAIN bend_angle.at |->
                    lat.l3 - FDiv(lat.l_bend \div 2, Cos(bend_angle.at[i]))]]

\* bend_angle = torch.arcsin(self.l_bend * G), elementwise
BendAngle(lat, G) ==
    [shape |-> G.shape,
     at    |-> [i \in DOMAIN G.at |-> ArcSin(FMul(lat.l_bend, G.at[i]))]]

\* arc_length = bend_angle / G, elementwise
ArcLength(bend_angle, G) ==
    [shape |-> G.shape,
     at    |-> [i \in DOMAIN G.at |-> FDiv(bend_angle.at[i], G.at[i])]]

\* set_lattice_parameters reading the voltage and the strength from each
\* other's column
SetLatticeParameters6DSwapped(lat, xx) ==
    LET G          == Ellipsis(xx, 0)
        bend_angle == BendAngle(lat, G)
        arc_length == ArcLength(bend_angle, G)
    IN  [lat EXCEPT !.elements.SCAN_QUAD_k1            = Ellipsis(xx, 1),
                    !.elements.SCAN_TDC_voltage        = Ellipsis(xx, 2),
                    !.elements.SCAN_DIPOLE_angle       = bend_angle,
                    !.elements.SCAN_DIPOLE_length      = arc_length,
                    !.elements.SCAN_DIPOLE_e2          = bend_angle,
                    !.elements.DIPOLE_TO_SCREEN_length =
                        DipoleToScreenLength(lat, bend_angle)]

\* set_lattice_parameters copying the exit edge angle from the dipole angle
\* before that angle is rewritten
SetLatticeParameters6DStale(lat, xx) ==
    LET G          == Ellipsis(xx, 0)
        bend_angle == BendAngle(lat, G)
        arc_length == ArcLength(bend_angle, G)
    IN  [lat EXCEPT !.elements.SCAN_QUAD_k1            = Ellipsis(xx, 2),
                    !.elements.SCAN_TDC_voltage        = Ellipsis(xx, 1),
                    !.elements.SCAN_DIPOLE_angle       = bend_angle,
                    !.elements.SCAN_DIPOLE_length      = arc_length,
                    !.elements.SCAN_DIPOLE_e2          = lat.elements.SCAN_DIPOLE_angle,
                    !.elements.DIPOLE_TO_SCREEN_length =
                        DipoleToScreenLength(lat, bend_angle)]

\* GPSR6DLattice.set_lattice_parameters(x)
SetLatticeParameters6D(lat, xx) ==
    LET G          == Ellipsis(xx, 0)
        bend_angle == BendAngle(lat, G)
        arc_length == ArcLength(bend_angle, G)
    IN  [lat EXCEPT !.elements.SCAN_QUAD_k1            = Ellipsis(xx, 2),
                    !.elements.SCAN_TDC_voltage        = Ellipsis(xx, 1),
                    !.elements.SCAN_DIPOLE_angle       = bend_angle,
                    !.elements.SCAN_DIPOLE_length      = arc_length,
                    !.elements.SCAN_DIPOLE_e2          = bend_angle,
                    !.elements.DIPOLE_TO_SCREEN_length =
                        DipoleToScreenLength(lat, bend_angle)]

\* GPSRLattice.set_lattice_parameters, dispatched on the concrete class
SetLatticeParameters(lat, xx) ==
    IF lat.variant = "quad" THEN SetLatticeParametersQuad(lat, xx)
    ELSE SetLatticeParameters6D(lat, xx)

\* self.lattice(beam): the Segment tracks the beam through every element.
\* The outgoing beam is batched over the broadcast of the element parameter
\* shapes; what it holds is a function of the element configuration and of
\* the incoming particles, kept here as that pair.
Segment(lat, beam) ==
    [shape     |-> BroadcastAll({lat.elements[f].shape : f \in DOMAIN lat.elements}),
     elements  |-> lat.elements,
     particles |-> beam.particles]

\* final_beam[i]: the sub-beam at Python index i of the first batch axis
BeamIndexable(beam, i) == Len(beam.shape) > 0 /\ i < beam.shape[1]

BeamIndex(beam, i) ==
    LET rank == Len(beam.shape)
        pick(t) == IF Len(t.shape) < rank THEN t
                   ELSE First(t, IF t.shape[1] = 1 THEN 0 ELSE i)
    IN  [shape     |-> Tail(beam.shape),
         elements  |-> [f \in DOMAIN beam.elements |-> pick(beam.elements[f])],
         particles |-> beam.particles]

\* a Screen read: one image per batch entry of the beam it is given
Screen(name, beam) ==
    [screen |-> name,
     shape  |-> beam.shape,
     image  |-> [elements |-> beam.elements, particles |-> beam.particles]]

\* GPSRQuadScanLattice.track_and_observe(beam)
TrackAndObserveQuad(lat, beam) ==
    LET final_beam   == Segment(lat, beam)
        observations == Screen(lat.diagnostic, final_beam)
    IN  [status |-> "ok", observations |-> <<observations>>]

\* track_and_observe reading both screens from the whole batched beam
TrackAndObserve6DWhole(lat, beam) ==
    LET final_beam == Segment(lat, beam)
    IN  [status |-> "ok",
         observations |->
            <<Screen(lat.screen_1_diagonstic, final_beam),
              Screen(lat.screen_2_diagonstic, final_beam)>>]

\* GPSR6DLattice.track_and_observe(beam)
TrackAndObserve6D(lat, beam) ==
    LET final_beam == Segment(lat, beam)
    IN  IF ~BeamIndexable(final_beam, 0) \/ ~BeamIndexable(final_beam, 1)
        THEN [status |-> "IndexError", observations |-> <<>>]
        ELSE [status |-> "ok",
              observations |->
                <<Screen(lat.screen_1_diagonstic, BeamIndex(final_beam, 0)),
                  Screen(lat.screen_2_diagonstic, BeamIndex(final_beam, 1))>>]

\* GPSRLattice.track_and_observe, dispatched on the concrete class
TrackAndObserve(lat, beam) ==
    IF lat.variant = "quad" THEN TrackAndObserveQuad(lat, beam)
    ELSE TrackAndObserve6D(lat, beam)

----------------------------------------------------------------------------
(* Beam generators and the reconstruction model.                           *)

\* the particle ensembles a generator can produce
Ensembles == {1, 2}

NoRef == "none"
NoBeam == [particles |-> 0]
NoResult == [status |-> "none", observations |-> <<>>]
NoLattice == [variant |-> "none"]
NoTrack == [configs |-> <<>>, beam |-> NoBeam]

\* self.beam_generator(): a deterministic generator returns the ensemble its
\* parameters fix, a stochastic one a fresh draw
Generate(gen, draw) ==
    [particles |-> IF gen.kind = "deterministic" THEN gen.param ELSE draw]

\* copy.deepcopy(obj): a new object, equal to the one copied, at a reference
\* of its own
DeepCopyAliased(heap, ref) == [ref |-> ref, heap |-> heap]

DeepCopy(heap, ref) == [ref |-> "own", heap |-> ("own" :> heap[ref]) @@ heap]

----------------------------------------------------------------------------
(* Inputs.                                                                 *)

\* dipole curvatures (nonzero, |l_bend * G| within the arcsin domain),
\* cavity voltages and quadrupole strengths of the scan grids
GVals == <<1000, -800, 600>>
VVals == <<0, 3000, -2000>>
KVals == <<-5000, 2000, 7000>>
Offsets == {0, 1}

Pick(vals, k) == vals[(k % Len(vals)) + 1]

\* a (M, N, K, 3) scan tensor: entry (m, n, k) holds
\* (dipole curvature of state m, voltage of state n, strength of state k)
SixDScan(M, N, K, o) ==
    [shape |-> <<M, N, K, 3>>,
     at    |-> [i \in Indices(<<M, N, K, 3>>) |->
                    CASE i[4] = 1 -> Pick(GVals, i[1] + o)
                      [] i[4] = 2 -> Pick(VVals, i[2] + o)
                      [] OTHER    -> Pick(KVals, i[3] + o)]]

\* a (K, 1) scan tensor of quadrupole strengths
QuadScan(K, o) ==
    [shape |-> <<K, 1>>,
     at    |-> [i \in Indices(<<K, 1>>) |-> Pick(KVals, i[1] + o)]]

QuadScans == {QuadScan(K, o) : K \in 1..MaxK, o \in Offsets}

SixDScans ==
    {SixDScan(M, N, K, o) : M \in 1..MaxM, N \in 1..MaxN, K \in 1..MaxK, o \in Offsets}

\* the scan tensors a lattice of the given class is driven with
ScanInputs(lat) == IF lat.variant = "quad" THEN QuadScans ELSE SixDScans

\* the scans the caller runs on its own template: the full grids
CallerInputs(lat) ==
    IF lat.variant = "quad"
    THEN {QuadScan(MaxK, o) : o \in Offsets}
    ELSE {SixDScan(MaxM, MaxN, MaxK, o) : o \in Offsets}

\* constructor arguments of the caller's template lattices
QuadArgs ==
    {[l_quad |-> 100, l_drift |-> 1000, diagnostic |-> "screen"]}

SixDArgs ==
    {[l_quad |-> 100, l_tdc |-> 200, l_bend |-> 500, theta_on |-> 349,
      l1 |-> 800, l2 |-> 700, l3 |-> 2000,
      screen_1 |-> "screen_1", screen_2 |-> "screen_2"],
     [l_quad |-> 120, l_tdc |-> 240, l_bend |-> 300, theta_on |-> 175,
      l1 |-> 900, l2 |-> 600, l3 |-> 1500,
      screen_1 |-> "screen_1", screen_2 |-> "screen_2"]}

TemplateLattices ==
    {GPSRQuadScanLattice(a) : a \in QuadArgs} \cup {GPSR6DLattice(a) : a \in SixDArgs}

TemplateGenerators ==
    {[kind |-> "deterministic", param |-> 1], [kind |-> "stochastic", param |-> 0]}

\* no histogram call made
NoCall == [op |-> "none"]

----------------------------------------------------------------------------
(* The state machine of the reconstruction model.                          *)

\* the caller has built a template generator and a template lattice
Init ==
    /\ \E l \in TemplateLattices : lats = [r \in {"tmpl"} |-> l]
    /\ \E g \in TemplateGenerators : gens = [r \in {"tmpl"} |-> g]
    /\ self = [beam_generator |-> NoRef, lattice |-> NoRef]
    /\ pc = "unbuilt"
    /\ x = Scalar(0)
    /\ initial_beam = NoBeam
    /\ result = NoResult
    /\ trace = <<>>
    /\ written = <<>>
    /\ tracked = NoTrack
    /\ built = NoLattice
    /\ earlier = FALSE
    /\ hcall = NoCall

\* GPSR.__init__(beam_generator, lattice)
Construct ==
    /\ pc = "unbuilt"
    /\ LET g == DeepCopy(gens, "tmpl")
           l == DeepCopy(lats, "tmpl")
       IN  /\ gens' = g.heap
           /\ lats' = l.heap
           /\ self' = [beam_generator |-> g.ref, lattice |-> l.ref]
           /\ built' = l.heap[l.ref]
    /\ pc' = "idle"
    /\ UNCHANGED <<x, initial_beam, result, trace, written, tracked, earlier, hcall>>

\* GPSR.forward(x), line 48: initial_beam = self.beam_generator()
ForwardGenerate ==
    /\ pc = "idle"
    /\ \E xx \in ScanInputs(lats[self.lattice]), draw \in Ensembles :
        /\ x' = xx
        /\ initial_beam' = Generate(gens[self.beam_generator], draw)
        /\ earlier' = (earlier \/ (trace # <<>> /\ xx # x))
    /\ trace' = <<"beam_generator">>
    /\ result' = NoResult
    /\ tracked' = NoTrack
    /\ pc' = "generated"
    /\ UNCHANGED <<lats, gens, self, written, built, hcall>>

\* a forward that never reaches set_lattice_parameters
ForwardSetSkipped ==
    /\ pc = "generated"
    /\ pc' = "configured"
    /\ UNCHANGED <<lats, gens, self, x, initial_beam, result, trace, written, tracked, built, earlier, hcall>>

\* GPSR.forward(x), line 51: self.lattice.set_lattice_parameters(x)
ForwardSet ==
    /\ pc = "generated"
    /\ lats' = [lats EXCEPT ![self.lattice] = SetLatticeParameters(@, x)]
    /\ written' = Append(written, x)
    /\ trace' = Append(trace, "set_lattice_parameters")
    /\ pc' = "configured"
    /\ UNCHANGED <<gens, self, x, initial_beam, result, tracked, built, earlier, hcall>>

\* GPSR.forward(x), line 53: return self.lattice.track_and_observe(initial_beam)
ForwardTrack ==
    /\ pc = "configured"
    /\ result' = TrackAndObserve(lats[self.lattice], initial_beam)
    /\ tracked' = [configs |-> written, beam |-> initial_beam]
    /\ written' = <<>>
    /\ trace' = Append(trace, "track_and_observe")
    /\ pc' = "idle"
    /\ UNCHANGED <<lats, gens, self, x, initial_beam, built, earlier, hcall>>

\* the caller reconfigures its own template lattice after the model was built
CallerSetTemplate ==
    /\ pc = "idle"
    /\ \E xx \in CallerInputs(lats["tmpl"]) :
        lats' = [lats EXCEPT !["tmpl"] = SetLatticeParameters(@, xx)]
    /\ UNCHANGED <<gens, self, pc, x, initial_beam, result, trace, written, tracked, built, earlier, hcall>>

\* the caller changes the parameters of its own template generator
CallerSetGenerator ==
    /\ pc = "idle"
    /\ gens["tmpl"].kind = "deterministic"
    /\ \E p \in Ensembles \ {gens["tmpl"].param} :
        gens' = [gens EXCEPT !["tmpl"].param = p]
    /\ UNCHANGED <<lats, self, pc, x, initial_beam, result, trace, written, tracked, built, earlier, hcall>>

Next == Construct \/ ForwardGenerate \/ ForwardSet \/ ForwardTrack
            \/ CallerSetTemplate \/ CallerSetGenerator

Spec == Init /\ [][Next]_vars

----------------------------------------------------------------------------
(* Properties of the reconstruction model and of the lattices.             *)

\* a forward call has returned (or raised) and no new one has begun
Returned == pc = "idle" /\ trace # <<>>

\* the lattice the model holds, and its element parameters
OwnLattice == lats[self.lattice]
Elements == OwnLattice.elements

\* the model's lattice is the six-D one and its parameters were set from x
SixDSet == pc \in {"configured", "idle"} /\ trace # <<>> /\ OwnLattice.variant = "sixd"

\* the batch indices of the scan tensor x
Batch == Indices(SubSeq(x.shape, 1, Len(x.shape) - 1))

\* C1: every forward call runs beam generation, set_lattice_parameters and
\* track_and_observe once each in this order; the tracking consumes exactly
\* the one configuration written by this call and the beam generated by this
\* call, and its result is what forward returns.
C1_ForwardOrder ==
    /\ pc = "generated" => trace = <<"beam_generator">> /\ written = <<>>
    /\ pc = "configured" =>
        /\ trace = <<"beam_generator", "set_lattice_parameters">>
        /\ written = <<x>>
    /\ Returned =>
        /\ trace = <<"beam_generator", "set_lattice_parameters", "track_and_observe">>
        /\ tracked.configs = <<x>>
        /\ tracked.beam = initial_beam
        /\ written = <<>>
        /\ Elements = SetLatticeParameters(OwnLattice, x).elements
        /\ result = TrackAndObserve(OwnLattice, initial_beam)

\* C1 witness: a later forward call, made with another scan tensor than an
\* earlier one, has returned its observations
C1_Witness == Returned /\ earlier /\ result.status = "ok"

\* a step of a forward call moves the caller's position inside GPSR; a step
\* the caller takes on its own templates leaves it between two calls
ForwardStep == pc # "unbuilt" /\ pc' # pc
CallerStep == pc = "idle" /\ pc' = "idle"

\* C2: no step of forward changes the caller's template generator or
\* template lattice, and no change the caller makes to its templates changes
\* the generator or lattice the model holds.
C2_IndependentCopies ==
    [][/\ ForwardStep => /\ lats'["tmpl"] = lats["tmpl"]
                         /\ gens'["tmpl"] = gens["tmpl"]
       /\ CallerStep => /\ lats'[self.lattice] = lats[self.lattice]
                        /\ gens'[self.beam_generator] = gens[self.beam_generator]]_vars

\* C2 witness: after forward calls and caller mutations the model's objects
\* and the caller's templates have diverged
C2_Witness ==
    /\ Returned
    /\ lats["tmpl"].elements # OwnLattice.elements
    /\ OwnLattice.elements # built.elements
    /\ gens["tmpl"] # gens[self.beam_generator]

\* C4 as stated: after set_lattice_parameters(x) the dipole holds
\* angle = arcsin(l_bend * G), length = angle / G and BOTH edge angles e1 and
\* e2 equal to the bend angle; quadrupole strength is x[..., 2] and cavity
\* voltage x[..., 1].
C4_BothEdgeAngles ==
    SixDSet =>
        /\ \A i \in Batch :
            /\ Elements.SCAN_DIPOLE_angle.at[i]
                = ArcSin(FMul(OwnLattice.l_bend, x.at[Append(i, 1)]))
            /\ Elements.SCAN_DIPOLE_length.at[i]
                = FDiv(Elements.SCAN_DIPOLE_angle.at[i], x.at[Append(i, 1)])
            /\ Elements.SCAN_QUAD_k1.at[i] = x.at[Append(i, 3)]
            /\ Elements.SCAN_TDC_voltage.at[i] = x.at[Append(i, 2)]
        /\ Elements.SCAN_DIPOLE_e1 = Elements.SCAN_DIPOLE_angle
        /\ Elements.SCAN_DIPOLE_e2 = Elements.SCAN_DIPOLE_angle

\* C4 amended: after set_lattice_parameters(x) the dipole holds
\* angle = arcsin(l_bend * G), length = angle / G and the exit edge angle e2
\* equal to the bend angle, while the entrance edge angle e1 keeps the value 0
\* it was constructed with; quadrupole strength is x[..., 2] and cavity
\* voltage x[..., 1].
C4_ExitEdgeAngleOnly ==
    SixDSet =>
        /\ \A i \in Batch :
            /\ Elements.SCAN_DIPOLE_angle.at[i]
                = ArcSin(FMul(OwnLattice.l_bend, x.at[Append(i, 1)]))
            /\ Elements.SCAN_DIPOLE_length.at[i]
                = FDiv(Elements.SCAN_DIPOLE_angle.at[i], x.at[Append(i, 1)])
            /\ Elements.SCAN_QUAD_k1.at[i] = x.at[Append(i, 3)]
            /\ Elements.SCAN_TDC_voltage.at[i] = x.at[Append(i, 2)]
        /\ Elements.SCAN_DIPOLE_e2 = Elements.SCAN_DIPOLE_angle
        /\ Elements.SCAN_DIPOLE_e1 = Scalar(0)

\* C4 witness: the six-D parameters were set from a grid with more than one
\* entry, none of zero curvature, and the bend angle differs from its sine
C4_Witness ==
    /\ SixDSet
    /\ pc = "configured"
    /\ Cardinality(Batch) > 1
    /\ \A i \in Batch :
        /\ x.at[Append(i, 1)] # 0
        /\ Elements.SCAN_DIPOLE_angle.at[i] # FMul(OwnLattice.l_bend, x.at[Append(i, 1)])

\* C5 as stated: for a (M, N, K, 3) scan tensor, what the six-D lattice
\* returns is exactly two observations, each of leading shape (M, N, K).
C5_FullBatchShape ==
    Returned /\ OwnLattice.variant = "sixd" /\ result.status = "ok" =>
        /\ Len(result.observations) = 2
        /\ \A k \in 1..Len(result.observations) :
            result.observations[k].shape = <<x.shape[1], x.shape[2], x.shape[3]>>

\* C5 amended: for a (M, N, K, 3) scan tensor with M >= 2 the six-D lattice
\* returns exactly two observations, each of leading shape (N, K): screen 1
\* reads index 0 and screen 2 index 1 of the first batch axis.
C5_TailBatchShape ==
    Returned /\ OwnLattice.variant = "sixd" /\ x.shape[1] >= 2 =>
        /\ result.status = "ok"
        /\ Len(result.observations) = 2
        /\ \A k \in 1..Len(result.observations) :
            /\ result.observations[k].shape = <<x.shape[2], x.shape[3]>>
            /\ result.observations[k].image.elements.SCAN_DIPOLE_angle
                = First(Elements.SCAN_DIPOLE_angle, k - 1)
        /\ result.observations[1].screen = OwnLattice.screen_1_diagonstic
        /\ result.observations[2].screen = OwnLattice.screen_2_diagonstic

\* C5 witness: a six-D forward with three batch axes of different roles
\* (M = 2 dipole states, more than one quadrupole strength) has returned
C5_Witness ==
    /\ Returned
    /\ OwnLattice.variant = "sixd"
    /\ x.shape[1] = 2 /\ x.shape[2] = 1 /\ x.shape[3] = 2
    /\ result.status = "ok"

\* C8: with a deterministic generator the observations forward(p) returns
\* are those of a lattice freshly built and set from p alone, whatever
\* forward calls came before: no element parameter of an earlier call
\* survives, so two calls with the same p return the same observations.
C8_DependsOnlyOnParameters ==
    Returned /\ gens[self.beam_generator].kind = "deterministic" =>
        result = TrackAndObserve(SetLatticeParameters(built, x),
                                 Generate(gens[self.beam_generator], 0))

\* C8 witness: a deterministic model has returned observations after an
\* earlier call with another scan tensor
C8_Witness ==
    /\ Returned
    /\ earlier
    /\ gens[self.beam_generator].kind = "deterministic"
    /\ result.status = "ok"

\* C10 as stated: the drift after the dipole is l3 - h / cos(bend_angle)
\* where h is the same quantity that multiplies the curvature in
\* bend_angle = arcsin(h * G).
C10_SameLengthInBoth ==
    SixDSet =>
        \E h \in {OwnLattice.l_bend, OwnLattice.l_bend \div 2} :
            \A i \in Batch :
                /\ Elements.SCAN_DIPOLE_angle.at[i] = ArcSin(FMul(h, x.at[Append(i, 1)]))
                /\ Elements.DIPOLE_TO_SCREEN_length.at[i]
                    = OwnLattice.l3 - FDiv(h, Cos(Elements.SCAN_DIPOLE_angle.at[i]))

\* C10 amended: the drift after the dipole is recomputed by every
\* set_lattice_parameters call as l3 - (l_bend / 2) / cos(bend_angle), where
\* bend_angle = arcsin(l_bend * G): the curvature is multiplied by the full
\* dipole length l_bend, twice the length divided by the cosine.
C10_HalfLengthInDriftOnly ==
    SixDSet =>
        \A i \in Batch :
            /\ Elements.SCAN_DIPOLE_angle.at[i]
                = ArcSin(FMul(OwnLattice.l_bend, x.at[Append(i, 1)]))
            /\ Elements.DIPOLE_TO_SCREEN_length.at[i]
                = OwnLattice.l3
                    - FDiv(OwnLattice.l_bend \div 2, Cos(Elements.SCAN_DIPOLE_angle.at[i]))

\* C10 witness: a later call has rewritten the drift, which now differs from
\* the length the lattice was built with
C10_Witness ==
    /\ SixDSet
    /\ earlier
    /\ pc = "configured"
    /\ \A i \in Batch :
        Elements.DIPOLE_TO_SCREEN_length.at[i] # built.elements.DIPOLE_TO_SCREEN_length.at[<<>>]

----------------------------------------------------------------------------
(* The differentiable histogram estimator.                                 *)
(*                                                                         *)
(* A tensor argument is a record: `tensor` tells whether the caller passed *)
(* a torch.Tensor at all.  Sample tensors hold `rows`, B rows of samples;  *)
(* bins hold `dim` and `centers`; the bandwidth holds `dim` and `val`.     *)
(* Kernel tensors hold `data`, indexed [batch][sample][bin].  Every        *)
(* quantity is fixed-point; the last division of a density is kept as the  *)
(* exact fraction [num, den], so that sums over the bins are exact.        *)

\* largest batch size B
MaxB == 2
\* largest number of samples per batch row
MaxD == 2
\* largest number of bins
MaxBins == 3

\* the default of the epsilon parameters, the smallest positive fixed-point
\* number standing for 1e-10
DefaultEpsilon == 1

\* 1000 * exp(-k / 8) for k = 0, 1, ...; zero (underflow) past the table
ExpTable ==
    <<1000, 882, 779, 687, 607, 535, 472, 417, 368, 325, 287, 253, 223, 197,
      174, 153, 135, 119, 105, 93, 82, 72, 64, 56, 50, 44, 39, 34, 30, 27, 24,
      21, 18, 16, 14, 13, 11, 10, 9, 8, 7, 6, 5, 5, 4, 4, 3, 3, 2, 2, 2, 2, 2,
      1, 1, 1, 1, 1, 1, 1, 1>>

\* torch.exp(-q) for a fixed-point q >= 0
ExpNeg(q) ==
    LET k == ((q * 8) + (SCALE \div 2)) \div SCALE
    IN  IF k + 1 > Len(ExpTable) THEN 0 ELSE ExpTable[k + 1]

RECURSIVE SumSeq(_)
SumSeq(s) == IF s = <<>> THEN 0 ELSE Head(s) + SumSeq(Tail(s))

Frac(n, d) == [num |-> n, den |-> d]

\* two fractions have the same value
FracEq(p, q) == p.num * q.den = q.num * p.den

Raised(error) == [status |-> error, pdf |-> <<>>, kernel_values |-> <<>>]

\* kernel_values = exp(-0.5 * ((values - bins) / sigma) ** 2)
KernelValues(values, bins, sigma) ==
    [b \in 1..Len(values.rows) |->
        [n \in 1..Len(values.rows[b]) |->
            [j \in 1..Len(bins.centers) |->
                LET residual == values.rows[b][n][1] - bins.centers[j]
                    ratio    == FDiv(residual, sigma.val)
                IN  ExpNeg(FMul(ratio, ratio) \div 2)]]]

\* torch.mean(kernel_values, dim=-2): per batch row and bin
MeanOverSamples(kv) ==
    [b \in 1..Len(kv) |->
        [j \in 1..Len(kv[b][1]) |->
            SumSeq([n \in 1..Len(kv[b]) |-> kv[b][n][j]]) \div Len(kv[b])]]

\* the density of marginal_pdf normalised by the kernel mass of the whole batch
NormalizedGlobally(mean, epsilon) ==
    LET normalization == SumSeq([b \in 1..Len(mean) |-> SumSeq(mean[b])]) + epsilon
    IN  [b \in 1..Len(mean) |->
            [j \in 1..Len(mean[b]) |-> Frac(mean[b][j], normalization)]]

\* normalization = torch.sum(pdf, dim=-1).unsqueeze(-1) + epsilon
\* pdf = pdf / normalization
Normalized(mean, epsilon) ==
    [b \in 1..Len(mean) |->
        LET normalization == SumSeq(mean[b]) + epsilon
        IN  [j \in 1..Len(mean[b]) |-> Frac(mean[b][j], normalization)]]

\* marginal_pdf without the check of sigma's rank
MarginalPdfAnySigma(values, bins, sigma, epsilon) ==
    IF ~values.tensor \/ ~bins.tensor \/ ~sigma.tensor THEN Raised("TypeError")
    ELSE IF bins.dim # 1 THEN Raised("ValueError")
    ELSE LET kernel_values == KernelValues(values, bins, sigma)
         IN  [status        |-> "ok",
              pdf           |-> Normalized(MeanOverSamples(kernel_values), epsilon),
              kernel_values |-> [tensor |-> TRUE, data |-> kernel_values]]

\* marginal_pdf(values, bins, sigma, epsilon) -> (pdf, kernel_values)
MarginalPdf(values, bins, sigma, epsilon) ==
    IF ~values.tensor THEN Raised("TypeError")
    ELSE IF ~bins.tensor THEN Raised("TypeError")
    ELSE IF ~sigma.tensor THEN Raised("TypeError")
    ELSE IF bins.dim # 1 THEN Raised("ValueError")
    ELSE IF sigma.dim # 0 THEN Raised("ValueError")
    ELSE LET kernel_values == KernelValues(values, bins, sigma)
         IN  [status        |-> "ok",
              pdf           |-> Normalized(MeanOverSamples(kernel_values), epsilon),
              kernel_values |-> [tensor |-> TRUE, data |-> kernel_values]]

\* the shape (B, N, NUM_BINS) of a kernel tensor
KernelShape(k) == <<Len(k.data), Len(k.data[1]), Len(k.data[1][1])>>

\* torch.matmul(kernel_values1.transpose(-2, -1), kernel_values2)
JointKernelValues(k1, k2) ==
    [b \in 1..Len(k1) |->
        [i \in 1..Len(k1[b][1]) |->
            [j \in 1..Len(k2[b][1]) |->
                SumSeq([n \in 1..Len(k1[b]) |-> FMul(k1[b][n][i], k2[b][n][j])])]]]

\* the joint density with every row of a grid normalised on its own
JointNormalizedByRow(joint, epsilon) ==
    [b \in 1..Len(joint) |->
        [i \in 1..Len(joint[b]) |->
            LET normalization == SumSeq(joint[b][i]) + epsilon
            IN  [j \in 1..Len(joint[b][i]) |-> Frac(joint[b][i][j], normalization)]]]

\* normalization = torch.sum(joint_kernel_values, dim=(-2, -1)) + epsilon
\* pdf = joint_kernel_values / normalization
JointNormalized(joint, epsilon) ==
    [b \in 1..Len(joint) |->
        LET normalization ==
                SumSeq([i \in 1..Len(joint[b]) |-> SumSeq(joint[b][i])]) + epsilon
        IN  [i \in 1..Len(joint[b]) |->
                [j \in 1..Len(joint[b][i]) |-> Frac(joint[b][i][j], normalization)]]]

\* joint_pdf(kernel_values1, kernel_values2, epsilon) -> pdf
JointPdf(kernel_values1, kernel_values2, epsilon) ==
    IF ~kernel_values1.tensor THEN Raised("TypeError")
    ELSE IF ~kernel_values2.tensor THEN Raised("TypeError")
    ELSE IF KernelShape(kernel_values1) # KernelShape(kernel_values2)
         THEN Raised("ValueError")
    ELSE [status |-> "ok",
          pdf    |-> JointNormalized(
                        JointKernelValues(kernel_values1.data, kernel_values2.data),
                        epsilon),
          kernel_values |-> <<>>]

\* x.unsqueeze(-1): (B, D) samples become (B, D, 1) values
Unsqueeze(xx) ==
    [tensor |-> xx.tensor,
     rows   |-> [b \in 1..Len(xx.rows) |->
                    [n \in 1..Len(xx.rows[b]) |-> <<xx.rows[b][n]>>]]]

\* histogram(x, bins, bandwidth, epsilon) -> pdf
Histogram(xx, bins, bandwidth, epsilon) ==
    IF ~xx.tensor THEN Raised("AttributeError")
    ELSE LET m == MarginalPdf(Unsqueeze(xx), bins, bandwidth, epsilon)
         IN  [status |-> m.status, pdf |-> m.pdf, kernel_values |-> <<>>]

\* histogram2d(x1, x2, bins, bandwidth, epsilon) -> pdf
Histogram2d(x1, x2, bins, bandwidth, epsilon) ==
    IF ~x1.tensor THEN Raised("AttributeError")
    ELSE LET m1 == MarginalPdf(Unsqueeze(x1), bins, bandwidth, epsilon)
         IN  IF m1.status # "ok" THEN Raised(m1.status)
             ELSE IF ~x2.tensor THEN Raised("AttributeError")
             ELSE LET m2 == MarginalPdf(Unsqueeze(x2), bins, bandwidth, epsilon)
                  IN  IF m2.status # "ok" THEN Raised(m2.status)
                      ELSE JointPdf(m1.kernel_values, m2.kernel_values, DefaultEpsilon)

----------------------------------------------------------------------------
(* Inputs of the histogram estimator.                                      *)

\* sample positions: rows of kind 0 and 1 lie among the bins, rows of kind 2
\* lie far from every bin
NearVals == <<-1000, 500, 0>>
FarVals == <<9000, -9500>>
RowKinds == {0, 1, 2}

SampleRow(kind, D) ==
    [n \in 1..D |-> IF kind = 2 THEN Pick(FarVals, n) ELSE Pick(NearVals, n + kind)]

\* a (B, D) sample tensor with rows of the given kinds
Samples(kinds, D) ==
    [tensor |-> TRUE, rows |-> [b \in 1..Len(kinds) |-> SampleRow(kinds[b], D)]]

RowKindSeqs == UNION {[1..B -> RowKinds] : B \in 1..MaxB}

\* something that is no torch.Tensor (a Python list, a float)
NotATensor == [tensor |-> FALSE, rows |-> <<<<0>>>>]

\* bin centers: linspace(-1, ., NB)
Grid(NB) == [j \in 1..NB |-> (j - 2) * SCALE]

ValidBins == {[tensor |-> TRUE, dim |-> 1, centers |-> Grid(NB)] : NB \in {MaxBins - 1, MaxBins}}

BadBins ==
    {[tensor |-> FALSE, dim |-> 1, centers |-> Grid(MaxBins)],
     [tensor |-> TRUE, dim |-> 2, centers |-> Grid(MaxBins)],
     [tensor |-> TRUE, dim |-> 0, centers |-> <<0>>]}

ValidSigmas == {[tensor |-> TRUE, dim |-> 0, val |-> v] : v \in {SCALE \div 2, SCALE}}

BadSigmas ==
    {[tensor |-> FALSE, dim |-> 0, val |-> SCALE \div 2],
     [tensor |-> TRUE, dim |-> 1, val |-> SCALE \div 2]}

Epsilons == {DefaultEpsilon, 3 * DefaultEpsilon}

\* the sample tensors tried with faulty bins or bandwidths
FewSamples == {Samples(<<0>>, 1), Samples(<<2>>, MaxD), NotATensor}

\* calls of histogram and (on the unsqueezed samples) of marginal_pdf
OneSampleArgs ==
    {[x1 |-> Samples(kinds, D), bins |-> bins, sigma |-> sigma, epsilon |-> e] :
        kinds \in RowKindSeqs, D \in 1..MaxD, bins \in ValidBins,
        sigma \in ValidSigmas, e \in Epsilons}
    \cup
    {[x1 |-> xx, bins |-> bins, sigma |-> sigma, epsilon |-> DefaultEpsilon] :
        xx \in FewSamples, bins \in ValidBins \cup BadBins,
        sigma \in ValidSigmas \cup BadSigmas}

\* the second coordinate of the same particles: the rows of x1 with their
\* kinds shifted, of the same or another sample count
Partner(kinds, shift, D) == Samples([b \in 1..Len(kinds) |-> (kinds[b] + shift) % 3], D)

\* calls of histogram2d
TwoSampleArgs ==
    {[x1 |-> Samples(kinds, D), x2 |-> Partner(kinds, shift, D2),
      bins |-> bins, sigma |-> sigma, epsilon |-> e] :
        kinds \in RowKindSeqs, D \in 1..MaxD, shift \in RowKinds, D2 \in {1, MaxD},
        bins \in ValidBins, sigma \in ValidSigmas, e \in Epsilons}
    \cup
    {[x1 |-> xx, x2 |-> yy, bins |-> bins, sigma |-> sigma, epsilon |-> DefaultEpsilon] :
        xx \in FewSamples, yy \in FewSamples, bins \in ValidBins \cup BadBins,
        sigma \in ValidSigmas \cup BadSigmas}

\* a kernel tensor as marginal_pdf returns it
KernelOf(xx, bins, sigma) ==
    [tensor |-> TRUE, data |-> KernelValues(Unsqueeze(xx), bins, sigma)]

NoKernel == [tensor |-> FALSE, data |-> <<>>]

\* calls of joint_pdf
KernelArgs ==
    {[k1 |-> KernelOf(Samples(kinds, D), b1, sigma),
      k2 |-> KernelOf(Partner(kinds, shift, D2), b2, sigma), epsilon |-> e] :
        kinds \in RowKindSeqs, D \in 1..MaxD, shift \in RowKinds, D2 \in {1, MaxD},
        b1 \in ValidBins, b2 \in ValidBins, sigma \in ValidSigmas, e \in Epsilons}
    \cup
    {[k1 |-> ka, k2 |-> kb, epsilon |-> DefaultEpsilon] :
        ka \in {NoKernel, KernelOf(Samples(<<0>>, 1), CHOOSE b \in ValidBins : TRUE,
                                   CHOOSE g \in ValidSigmas : TRUE)},
        kb \in {NoKernel}}

HistCalls ==
    {[op |-> "marginal_pdf", phase |-> "called", result |-> Raised("none"),
      args |-> [a EXCEPT !.x1 = Unsqueeze(a.x1)]] : a \in OneSampleArgs}
    \cup
    {[op |-> "histogram", phase |-> "called", args |-> a, result |-> Raised("none")] :
        a \in OneSampleArgs}
    \cup
    {[op |-> "histogram2d", phase |-> "called", args |-> a, result |-> Raised("none")] :
        a \in TwoSampleArgs}
    \cup
    {[op |-> "joint_pdf", phase |-> "called", args |-> a, result |-> Raised("none")] :
        a \in KernelArgs}

----------------------------------------------------------------------------
(* The estimator's calls: a call is made, then it returns or raises.       *)

InitHist ==
    /\ lats = [r \in {"tmpl"} |-> CHOOSE l \in TemplateLattices : l.variant = "quad"]
    /\ gens = [r \in {"tmpl"} |-> [kind |-> "deterministic", param |-> 1]]
    /\ self = [beam_generator |-> NoRef, lattice |-> NoRef]
    /\ pc = "unbuilt"
    /\ x = Scalar(0)
    /\ initial_beam = NoBeam
    /\ result = NoResult
    /\ trace = <<>>
    /\ written = <<>>
    /\ tracked = NoTrack
    /\ built = NoLattice
    /\ earlier = FALSE
    /\ hcall \in HistCalls

Returns(op, res) ==
    /\ hcall.op = op
    /\ hcall.phase = "called"
    /\ hcall' = [hcall EXCEPT !.phase = "returned", !.result = res]
    /\ UNCHANGED <<lats, gens, self, pc, x, initial_beam, result, trace, written,
                   tracked, built, earlier>>

CallMarginalPdf ==
    Returns("marginal_pdf",
            MarginalPdf(hcall.args.x1, hcall.args.bins, hcall.args.sigma, hcall.args.epsilon))

CallJointPdf ==
    Returns("joint_pdf", JointPdf(hcall.args.k1, hcall.args.k2, hcall.args.epsilon))

CallHistogram ==
    Returns("histogram",
            Histogram(hcall.args.x1, hcall.args.bins, hcall.args.sigma, hcall.args.epsilon))

CallHistogram2d ==
    Returns("histogram2d",
            Histogram2d(hcall.args.x1, hcall.args.x2, hcall.args.bins, hcall.args.sigma,
                        hcall.args.epsilon))

NextHist == CallMarginalPdf \/ CallJointPdf \/ CallHistogram \/ CallHistogram2d

SpecHist == InitHist /\ [][NextHist]_vars

----------------------------------------------------------------------------
(* Properties of the histogram estimator.                                  *)

HistReturned(op) == hcall.op = op /\ hcall.phase = "returned"

HistOk(op) == HistReturned(op) /\ hcall.result.status = "ok"

\* the sum of row b of a returned 1D density is within epsilon of 1
RowWithinEpsilon(pdf, b, epsilon) ==
    LET total == SumSeq([j \in 1..Len(pdf[b]) |-> pdf[b][j].num])
        den   == pdf[b][1].den
    IN  /\ \A j \in 1..Len(pdf[b]) : pdf[b][j].den = den
        /\ Abs(den - total) * SCALE <= epsilon * den

\* the kernel mass of batch row b: the sum over the bins of the mean kernel
\* weight of the row's samples
KernelMass(kv, b) ==
    SumSeq([j \in 1..Len(kv[b][1]) |->
                SumSeq([n \in 1..Len(kv[b]) |-> kv[b][n][j]]) \div Len(kv[b])])

\* C3 as stated: for every sigma > 0 and every (B, N, 1) input, every batch
\* row of the pdf marginal_pdf returns sums to 1 within epsilon, also the
\* rows whose samples all lie far from every bin.
C3_EveryRowSumsToOne ==
    HistOk("marginal_pdf") =>
        \A b \in 1..Len(hcall.result.pdf) :
            RowWithinEpsilon(hcall.result.pdf, b, hcall.args.epsilon)

\* C3 amended: for every sigma > 0 and every (B, N, 1) input, every batch row
\* of the pdf marginal_pdf returns sums to S / (S + epsilon), where S is the
\* kernel mass of that row alone (never of the batch): the sum is within
\* epsilon of 1 exactly when S + epsilon >= 1, and a row whose samples all lie
\* far from every bin (S = 0) is all zeros and sums to 0.
C3_RowSumIsMassOverMassPlusEpsilon ==
    HistOk("marginal_pdf") =>
        LET pdf == hcall.result.pdf
            kv  == hcall.result.kernel_values.data
        IN  \A b \in 1..Len(pdf) :
                LET S == KernelMass(kv, b)
                IN  /\ SumSeq([j \in 1..Len(pdf[b]) |-> pdf[b][j].num]) = S
                    /\ \A j \in 1..Len(pdf[b]) : pdf[b][j].den = S + hcall.args.epsilon
                    /\ RowWithinEpsilon(pdf, b, hcall.args.epsilon)
                        <=> (S + hcall.args.epsilon >= SCALE)
                    /\ S = 0 => \A j \in 1..Len(pdf[b]) : pdf[b][j].num = 0

\* C3 witness: marginal_pdf returned a batch in which one row lies far from
\* every bin and another row carries kernel mass
C3_Witness ==
    /\ HistOk("marginal_pdf")
    /\ \E b, c \in 1..Len(hcall.result.pdf) :
        /\ KernelMass(hcall.result.kernel_values.data, b) = 0
        /\ KernelMass(hcall.result.kernel_values.data, c) >= SCALE

\* the transpose over the two bin axes, for every batch row
Transpose(pdf) ==
    [b \in 1..Len(pdf) |->
        [i \in 1..Len(pdf[b][1]) |-> [j \in 1..Len(pdf[b]) |-> pdf[b][j][i]]]]

\* C6: for x1, x2 of the same shape and shared bins and bandwidth,
\* histogram2d(x2, x1, bins, bw) is the transpose over the two bin axes of
\* histogram2d(x1, x2, bins, bw), for every batch row.
C6_SwapIsTranspose ==
    HistOk("histogram2d") =>
        Histogram2d(hcall.args.x2, hcall.args.x1, hcall.args.bins, hcall.args.sigma,
                    hcall.args.epsilon).pdf
            = Transpose(hcall.result.pdf)

\* C6 witness: histogram2d returned, for two different coordinates of a
\* batch of more than one row, a joint density that is not symmetric
C6_Witness ==
    /\ HistOk("histogram2d")
    /\ hcall.args.x1 # hcall.args.x2
    /\ Len(hcall.result.pdf) > 1
    /\ hcall.result.pdf # Transpose(hcall.result.pdf)

\* what the estimator's contract rules out in the arguments of a call
TypeFault(a) == ~a.x1.tensor \/ ~a.bins.tensor \/ ~a.sigma.tensor
RankFault(a) == a.bins.dim # 1 \/ a.sigma.dim # 0
KernelTypeFault(a) == ~a.k1.tensor \/ ~a.k2.tensor
SampleShape(xx) == <<Len(xx.rows), Len(xx.rows[1])>>

SamePdf(p, q) ==
    /\ Len(p) = Len(q)
    /\ \A b \in 1..Len(p) : \A i \in 1..Len(p[b]) : \A j \in 1..Len(p[b][i]) :
        FracEq(p[b][i][j], q[b][i][j])

\* C9: for every epsilon e the caller passes, histogram2d(x1, x2, bins,
\* bandwidth, e) equals joint_pdf(k1, k2, e) on the kernel weights k1, k2 that
\* marginal_pdf returns for x1 and x2: the joint normalization adds the
\* caller's e.
C9_CallerEpsilonInJoint ==
    HistOk("histogram2d") =>
        LET a  == hcall.args
            k1 == MarginalPdf(Unsqueeze(a.x1), a.bins, a.sigma, a.epsilon).kernel_values
            k2 == MarginalPdf(Unsqueeze(a.x2), a.bins, a.sigma, a.epsilon).kernel_values
        IN  SamePdf(hcall.result.pdf, JointPdf(k1, k2, a.epsilon).pdf)

====
